---- MODULE Spec2Model ----
(***************************************************************************)
(* Model of the reel2real itinerary builder.                               *)
(*                                                                         *)
(*   build_itinerary      backend/itinerary_algorithm.py                   *)
(*   build_itinerary_api  backend/itinerary/api.py  (POST /api/build-...)  *)
(*   generate_itinerary   backend/itinerary_generator.py                   *)
(*   calculate_travel_time_matrix, find_restaurant_near_location           *)
(*                        backend/location_services.py                     *)
(*   analyze_videos       backend/main.py  (POST /analyze-videos)          *)
(*                                                                         *)
(* Python lists are functions on 0..n-1, so that indices are the source's  *)
(* indices; lists that only grow by append (route, final_route_indices,    *)
(* itinerary_items) are sequences.                                         *)
(***************************************************************************)
EXTENDS Integers, Sequences, FiniteSets, TLC

VARIABLES
    mode,                 \* which entry point runs: "algo", "api" or "gen"
    locations,            \* list of Location(name, open, close, duration)
    travel_time,          \* travel-time matrix, list of rows
    start_idx,
    start_time,
    return_to_hotel,
    restaurant_locations, \* list of indices, after auto-detection
    location_coords,      \* request.location_coords: per entry, lat and lon
    include_lunch,
    include_dinner,
    pc,                   \* position of the running request
    visited,
    route,
    current,
    current_time,
    lunch_taken,
    meal_times,
    arrivals,             \* value of `arrival` at each append to route
    step,                 \* what the last loop iteration of build_itinerary did
    final_route_indices,
    api_time,             \* current_time of build_itinerary_api
    current_idx,
    api_lunch_taken,
    lunch_restaurant,     \* the record of the last lunch lookup
    dinner_time_set,
    end_time,
    walk_i,               \* loop index of the API's / generator's walk
    timeline,             \* arrival time of each entry of final_route_indices
    itinerary_items,
    gen_time,             \* current_time of generate_itinerary
    lunch_added,
    skipped_locations,
    request,              \* arguments of a service call and what its providers answer
    response,             \* what the service call returns
    first_call,           \* result of an earlier call on the same input
    lunch_tasks,          \* the lookups handed to asyncio.gather, in task order
    lunch_results_list,   \* what asyncio.gather returned
    lunch_map,
    first_done            \* the task that completed first (0: none yet)

inputVars == <<mode, locations, travel_time, start_idx, start_time,
               return_to_hotel, restaurant_locations, location_coords,
               include_lunch, include_dinner>>
buildVars == <<visited, route, current, current_time, lunch_taken, arrivals, step>>
apiVars   == <<final_route_indices, api_time, current_idx, api_lunch_taken,
               lunch_restaurant, dinner_time_set, end_time, timeline>>
genVars   == <<itinerary_items, gen_time, lunch_added, skipped_locations>>
callVars  == <<request, response, first_call>>
fanVars   == <<lunch_tasks, lunch_results_list, lunch_map, first_done>>
vars == <<inputVars, pc, buildVars, meal_times, apiVars, walk_i, genVars, callVars,
          fanVars>>

----------------------------------------------------------------------------
(* Bounds and program constants *)

MaxStops == 2          \* locations other than the start in a generated input
MaxCoords == 2         \* coordinates in a generated call of the matrix service

INF == 1000000         \* float("inf"): above every cost the inputs can produce
None == -9             \* Python None where the code holds an index or a minute
lunch_start == 720     \* lunch_window[0]
lunch_end == 900       \* lunch_window[1]
lunch_duration == 60
LunchLead == 30        \* "within 30 min" of lunch start
LUNCH_MARK == -2       \* route marker of the lunch restaurant
DINNER_MARK == -1      \* route marker of the dinner restaurant
DefaultTravel == 10    \* "travel = 10  # Default fallback"

NoRestaurant == "None" \* no restaurant name
\* the name of the synthetic record of find_restaurant_near_location
FoundRestaurant == "Nearby Restaurant"
\* lunch_restaurant = None, where the variable otherwise holds the record
\* find_restaurant_near_location returned
NoLunchRestaurant == [name |-> NoRestaurant]

Max(a, b) == IF a >= b THEN a ELSE b
PyLen(list) == Cardinality(DOMAIN list)
Last(s) == s[Len(s)]
N == PyLen(locations)

----------------------------------------------------------------------------
(* Inputs *)

\* Location(name, open_time, close_time, duration, priority=None)
Loc(nm, o, c, d) ==
    [name |-> nm, open |-> o, close |-> c, duration |-> d, priority |-> None]

\* a priority a caller may pass instead of the default None
Priorities == {None, 3}

\* names the keyword test of build_itinerary classifies as restaurants
RestaurantNames == {"Corner Cafe"}

StartProfiles == { Loc("S", 0, 1440, 0), Loc("B", 600, 1200, 90) }
Profiles == { Loc("A", 540, 1080, 60),
              Loc("B", 600, 1200, 90),
              Loc("C", 1200, 1300, 200),
              Loc("D", 0, 550, 30),
              Loc("Corner Cafe", 660, 900, 45) }
StartTimes == {540, 700, 1100}
MatrixKinds == {"uniform", "line", "asym", "mixed", "far"}

Abs(x) == IF x < 0 THEN -x ELSE x
Cell(kind, i, j) ==
    CASE kind = "uniform" -> 10
      [] kind = "line"    -> 15 * Abs(i - j)
      [] kind = "asym"    -> IF i < j THEN 10 ELSE 40
      [] kind = "mixed"   -> ((7 * i + 13 * j) % 5) * 10
      [] kind = "far"     -> 200
MakeMatrix(kind, n) ==
    [i \in 0..(n-1) |-> [j \in 0..(n-1) |-> IF i = j THEN 0 ELSE Cell(kind, i, j)]]

----------------------------------------------------------------------------
(* build_itinerary: the state before the call and the call's prologue *)

EmptyDict == [k \in {} |-> 0]

\* no concurrent restaurant lookup
NoFanOut ==
    /\ lunch_tasks = << >> /\ lunch_results_list = << >>
    /\ lunch_map = << >> /\ first_done = 0

\* no service call and no earlier call in progress
NoCall ==
    /\ request = [fn |-> "none"]
    /\ response = [fn |-> "none"]
    /\ first_call = << >>

Idle ==
    /\ visited = << >> /\ route = << >> /\ current = None /\ current_time = None
    /\ lunch_taken = FALSE /\ meal_times = EmptyDict /\ arrivals = << >>
    /\ step = "none"
    /\ final_route_indices = << >> /\ api_time = None /\ current_idx = None
    /\ api_lunch_taken = FALSE /\ lunch_restaurant = NoLunchRestaurant
    /\ dinner_time_set = FALSE /\ end_time = None /\ walk_i = 0
    /\ timeline = << >>
    /\ itinerary_items = << >> /\ gen_time = None /\ lunch_added = FALSE
    /\ skipped_locations = << >>

\* lines 46-62: restaurant_locations=None is replaced by the indices whose
\* name carries a restaurant keyword, in increasing index order
RECURSIVE AutoDetect(_, _, _)
AutoDetect(locs, start, i) ==
    IF i >= PyLen(locs) THEN << >>
    ELSE IF i # start /\ locs[i].name \in RestaurantNames
         THEN <<i>> \o AutoDetect(locs, start, i + 1)
         ELSE AutoDetect(locs, start, i + 1)

WellFormedInput(m) ==
    \E n \in 1..(MaxStops + 1), kind \in MatrixKinds :
        /\ mode = m
        /\ start_idx \in 0..(n-1)
        /\ locations \in [0..(n-1) -> Profiles \cup StartProfiles]
        /\ locations[start_idx] \in StartProfiles
        /\ \A i \in 0..(n-1) : i # start_idx => locations[i] \in Profiles
        /\ travel_time = MakeMatrix(kind, n)
        /\ start_time \in StartTimes

InitAlgo ==
    /\ WellFormedInput("algo")
    /\ include_lunch = TRUE /\ include_dinner = TRUE
    /\ return_to_hotel \in BOOLEAN
    /\ restaurant_locations \in {AutoDetect(locations, start_idx, 0), << >>}
    /\ location_coords = << >>
    /\ pc = "loop"
    /\ visited = [i \in DOMAIN locations |-> FALSE]
    /\ route = <<start_idx>> /\ current = start_idx /\ current_time = start_time
    /\ lunch_taken = FALSE /\ meal_times = EmptyDict
    /\ arrivals = <<start_time>> /\ step = "none"
    /\ final_route_indices = << >> /\ api_time = None /\ current_idx = None
    /\ api_lunch_taken = FALSE /\ lunch_restaurant = NoLunchRestaurant
    /\ dinner_time_set = FALSE /\ end_time = None /\ walk_i = 0
    /\ timeline = << >>
    /\ itinerary_items = << >> /\ gen_time = None /\ lunch_added = FALSE
    /\ skipped_locations = << >>
    /\ NoCall /\ NoFanOut

----------------------------------------------------------------------------
(* build_itinerary: one iteration of `while True` *)

TT(i, j) == travel_time[i][j]

\* lines 68-79
should_take_lunch ==
    /\ ~lunch_taken
    /\ current_time <= lunch_end
    /\ \/ current_time >= lunch_start
       \/ current_time < lunch_start /\ lunch_start - current_time <= LunchLead

\* mutant: the guard `if arrival < open` lost, arrival always set to open
ArrivalAtNoGuard(i) == locations[i].open

\* lines 162-166: arrival at i from the current position, waiting for opening
ArrivalAt(i) == Max(current_time + TT(current, i), locations[i].open)

\* lines 171-175
Waiting(i) == Max(0, locations[i].open - (current_time + TT(current, i)))

\* mutant: the priority of a location added to its cost as a penalty
CostWithPriority(i) ==
    TT(current, i) + Waiting(i)
      + (IF locations[i].priority = None THEN 0 ELSE locations[i].priority)

Cost(i) == TT(current, i) + Waiting(i)

\* mutant: `or i == start_idx` lost, the start index is a candidate
SkippedNoStart(i) == visited[i] \/ ArrivalAt(i) > locations[i].close

\* mutant: `visited[i]` lost, a visited location is a candidate again
SkippedRevisit(i) == i = start_idx \/ ArrivalAt(i) > locations[i].close

\* lines 159-169: the candidate filter of the normal selection
Skipped(i) == visited[i] \/ i = start_idx \/ ArrivalAt(i) > locations[i].close

\* mutant: `<=` in place of `<`, the last candidate seen wins a tie
BetterOrEqual(cost, best_cost) == cost <= best_cost

\* lines 177-179
Better(cost, best_cost) == cost < best_cost

\* mutant: `best_cost = cost` forgotten, every candidate under INF replaces best
RECURSIVE ScanNextStale(_, _, _)
ScanNextStale(i, best, best_cost) ==
    IF i >= N THEN best
    ELSE IF Skipped(i) THEN ScanNextStale(i + 1, best, best_cost)
    ELSE IF Better(Cost(i), best_cost) THEN ScanNextStale(i + 1, i, best_cost)
    ELSE ScanNextStale(i + 1, best, best_cost)

\* mutant: `break` in place of `continue` at a skipped candidate
RECURSIVE ScanNextBreak(_, _, _)
ScanNextBreak(i, best, best_cost) ==
    IF i >= N THEN best
    ELSE IF Skipped(i) THEN best
    ELSE IF Better(Cost(i), best_cost) THEN ScanNextBreak(i + 1, i, Cost(i))
    ELSE ScanNextBreak(i + 1, best, best_cost)

\* lines 155-179: the scan `for i in range(n)`, keeping (best_next, best_cost)
RECURSIVE ScanNext(_, _, _)
ScanNext(i, best, best_cost) ==
    IF i >= N THEN best
    ELSE IF Skipped(i) THEN ScanNext(i + 1, best, best_cost)
    ELSE IF Better(Cost(i), best_cost) THEN ScanNext(i + 1, i, Cost(i))
    ELSE ScanNext(i + 1, best, best_cost)
best_next == ScanNext(0, None, INF)

\* lines 87-104: the scan of the known restaurants, in list order
RestaurantSkipped(i) ==
    \/ visited[i] \/ i = start_idx
    \/ ArrivalAt(i) > locations[i].close
    \/ ArrivalAt(i) > lunch_end
RECURSIVE ScanRestaurants(_, _, _)
ScanRestaurants(k, best, best_cost) ==
    IF k >= PyLen(restaurant_locations) THEN best
    ELSE LET i == restaurant_locations[k + 1]
         IN  IF RestaurantSkipped(i) THEN ScanRestaurants(k + 1, best, best_cost)
             ELSE IF TT(current, i) < best_cost
                  THEN ScanRestaurants(k + 1, i, TT(current, i))
                  ELSE ScanRestaurants(k + 1, best, best_cost)

\* mutant: the wait until the lunch window starts lost
LunchArrivalNoClamp(i) == ArrivalAt(i)

\* lines 113-127: any unvisited location as lunch spot
LunchArrival(i) == Max(ArrivalAt(i), lunch_start)
LunchSpotSkipped(i) ==
    visited[i] \/ i = start_idx \/ ArrivalAt(i) > lunch_end
LunchSpotCost(i) ==
    TT(current, i) + Max(0, LunchArrival(i) - current_time) + locations[i].duration
RECURSIVE ScanLunchSpots(_, _, _)
ScanLunchSpots(i, best, best_cost) ==
    IF i >= N THEN best
    ELSE IF LunchSpotSkipped(i) THEN ScanLunchSpots(i + 1, best, best_cost)
    ELSE IF LunchSpotCost(i) < best_cost
         THEN ScanLunchSpots(i + 1, i, LunchSpotCost(i))
         ELSE ScanLunchSpots(i + 1, best, best_cost)

\* lines 83-130
best_restaurant ==
    LET known == ScanRestaurants(0, None, INF)
    IN  IF known # None THEN known ELSE ScanLunchSpots(0, None, INF)

SetKeys(dict, upd) ==
    [k \in DOMAIN dict \cup DOMAIN upd |-> IF k \in DOMAIN upd THEN upd[k] ELSE dict[k]]

\* lines 81-149: lunch at best_restaurant, then `continue`
BuildLunch ==
    /\ pc = "loop"
    /\ should_take_lunch
    /\ best_restaurant # None
    /\ LET r == best_restaurant
           arrival == LunchArrival(r)
       IN  /\ route' = Append(route, r)
           /\ arrivals' = Append(arrivals, arrival)
           /\ meal_times' = SetKeys(meal_times,
                                    [lunch_time |-> arrival, lunch_location |-> r])
           /\ current_time' = arrival + lunch_duration
           /\ visited' = [visited EXCEPT ![r] = TRUE]
           /\ current' = r
    /\ lunch_taken' = TRUE
    /\ step' = "lunch"
    /\ UNCHANGED <<inputVars, callVars, fanVars, pc, apiVars, walk_i, genVars>>

\* lines 150-152 fall through to lines 154-193: normal selection
BuildSelect ==
    /\ pc = "loop"
    /\ should_take_lunch => best_restaurant = None
    /\ best_next # None
    /\ LET b == best_next
           arrival == ArrivalAt(b)
       IN  /\ route' = Append(route, b)
           /\ arrivals' = Append(arrivals, arrival)
           /\ current_time' = arrival + locations[b].duration
           /\ visited' = [visited EXCEPT ![b] = TRUE]
           /\ current' = b
    /\ lunch_taken' = (lunch_taken \/ should_take_lunch)
    /\ step' = "select"
    /\ UNCHANGED <<inputVars, callVars, fanVars, pc, meal_times, apiVars, walk_i, genVars>>

\* mutant: the travel of the return leg not added
HotelArrivalNoTravel == current_time

\* lines 197-198
HotelArrival == current_time + TT(current, start_idx)

\* lines 181-182 and 195-204: break, return leg, return
BuildReturn ==
    /\ pc = "loop"
    /\ should_take_lunch => best_restaurant = None
    /\ best_next = None
    /\ lunch_taken' = (lunch_taken \/ should_take_lunch)
    /\ IF return_to_hotel /\ current # start_idx
       THEN LET arrival == HotelArrival
            IN  /\ current_time' = arrival
                /\ route' = Append(route, start_idx)
                /\ arrivals' = Append(arrivals, arrival)
                /\ meal_times' = SetKeys(meal_times,
                       [dinner_time |-> arrival, dinner_location |-> start_idx])
       ELSE UNCHANGED <<current_time, route, arrivals, meal_times>>
    /\ step' = "break"
    /\ pc' = "built"
    /\ UNCHANGED <<inputVars, callVars, fanVars, visited, current, apiVars, walk_i, genVars>>

\* a second call of build_itinerary whose input differs from the returned
\* call's input in the priority of the locations only (lines 35-43 run again)
CallAgain ==
    /\ pc = "built" /\ mode = "algo"
    /\ first_call = << >>
    /\ first_call' = <<route, current_time, meal_times>>
    /\ \E q \in [DOMAIN locations \ {start_idx} -> Priorities] :
          /\ \E i \in DOMAIN q : q[i] # None
          /\ locations' = [i \in DOMAIN locations |->
                              IF i \in DOMAIN q
                              THEN [locations[i] EXCEPT !.priority = q[i]]
                              ELSE locations[i]]
    /\ visited' = [i \in DOMAIN locations |-> FALSE]
    /\ route' = <<start_idx>>
    /\ current' = start_idx
    /\ current_time' = start_time
    /\ lunch_taken' = FALSE
    /\ meal_times' = EmptyDict
    /\ arrivals' = <<start_time>>
    /\ step' = "none"
    /\ pc' = "loop"
    /\ UNCHANGED <<mode, travel_time, start_idx, start_time, return_to_hotel,
                   restaurant_locations, location_coords, include_lunch,
                   include_dinner, request, response, apiVars, walk_i, genVars,
                   fanVars>>

NextAlgo == BuildLunch \/ BuildSelect \/ BuildReturn
SpecAlgo == InitAlgo /\ [][NextAlgo]_vars

\* the loop of build_itinerary is sequential code: an iteration that can run, runs
SpecAlgoFair == SpecAlgo /\ WF_vars(NextAlgo)

NextTwice == BuildLunch \/ BuildSelect \/ BuildReturn \/ CallAgain
SpecTwice == InitAlgo /\ [][NextTwice]_vars


----------------------------------------------------------------------------
(* POST /api/build-itinerary: request validation *)

\* api.py lines 41-45 (LocationWithCoordsInput): lat and lon of an entry
Coords(lat, lon) == [lat |-> lat, lon |-> lon]
\* in ten-thousandths of a degree: a point with both values non-zero, a
\* second one 10 km north of it, an entry without lat and lon, and a point
\* on the prime meridian (lon = 0.0)
SetCoords == Coords(480000, 20000)
FarCoords == Coords(480900, 20000)
NullCoords == Coords(None, None)
MeridianCoords == Coords(510000, 0)

\* the truth value Python gives an Optional[float]
Truthy(x) == x # None /\ x # 0

\* `coords.lat and coords.lon`
Usable(coords) == Truthy(coords.lat) /\ Truthy(coords.lon)

\* location_coords absent or empty, complete, with one entry without lat and
\* lon, with the last entry 10 km away or on the prime meridian, or one
\* entry short
CoordsChoices(n) ==
    {<< >>} \cup {[i \in 0..(n-1) |-> SetCoords]}
            \cup {[i \in 0..(n-1) |-> IF i = m THEN NullCoords ELSE SetCoords] :
                      m \in 0..(n-1)}
            \cup {[i \in 0..(n-1) |-> IF i = n - 1 THEN FarCoords ELSE SetCoords]}
            \cup {[i \in 0..(n-1) |-> IF i = n - 1 THEN MeridianCoords ELSE SetCoords]}
            \cup {[i \in 0..(n-2) |-> SetCoords]}

\* f"{lat:.4f}, {lon:.4f}"
FormatCoords(point) ==
    IF point = SetCoords THEN "48.0000, 2.0000" ELSE "48.0900, 2.0000"

\* location_services.py lines 519-531: the record returned when no query
\* yields a restaurant inside the radius, 0.001 degrees from the search point
SyntheticNear(point) ==
    [name |-> FoundRestaurant,
     address |-> "Restaurant near coordinates " \o FormatCoords(point),
     lat |-> point.lat + 10, lon |-> point.lon + 10]

\* location_services.py lines 551-562: the record returned when the lookup
\* itself raises, at the search point
FallbackNear(point) ==
    [name |-> FoundRestaurant, address |-> "Restaurant near coordinates",
     lat |-> point.lat, lon |-> point.lon]

\* location_services.py lines 466, 498-508 and 535-550: the record of the
\* provider's item with display_name "Bistro Paul, 12 Rue Cler, Paris", the
\* name being display_name.split(",")[0] and the address the display_name
BistroPaul ==
    [name |-> "Bistro Paul", address |-> "Bistro Paul, 12 Rue Cler, Paris",
     lat |-> 480165, lon |-> 20000]

\* what find_restaurant_near_location(lat, lon, radius_m=2000) answers to a
\* lookup of the walk at a point: the synthetic record, the record of a
\* failed lookup, or the provider's match when it lies inside the radius
\* (Bistro Paul is 1.83 km from SetCoords and 8.17 km from FarCoords)
NearbyRestaurants(point) ==
    IF ~Usable(point) THEN {NoLunchRestaurant}
    ELSE {SyntheticNear(point), FallbackNear(point)}
            \cup (IF point = SetCoords THEN {BistroPaul} ELSE {})

\* max(1, int(distance_km * 1.2)) of the haversine distance between two of
\* the points above, by the differences of their lat and lon: 0 km and
\* 0.13 km give 1, 1.83 km 2, 8.17 km 9, 9.90 km 11, 10.01 and 10.12 km 12
TravelMinutes(from, to) ==
    LET dlat == Abs(from.lat - to.lat)
        dlon == Abs(from.lon - to.lon)
    IN  CASE dlat <= 10 /\ dlon <= 10 -> 1
          [] dlat = 165 /\ dlon = 0 -> 2
          [] dlat = 735 /\ dlon = 0 -> 9
          [] dlat = 890 /\ dlon = 10 -> 11
          [] dlat = 900 /\ dlon = 0 -> 12
          [] dlat = 910 /\ dlon = 10 -> 12

\* the points of the model with both values non-zero
UsablePoints == {SetCoords, FarCoords}

\* the minutes from a search point to a restaurant found near it
NearTravel ==
    UNION {{TravelMinutes(point, restaurant) : restaurant \in NearbyRestaurants(point)} :
              point \in UsablePoints}

\* the minutes between a restaurant found near some point and a location
HavTravel ==
    UNION {{TravelMinutes(restaurant, to) :
               restaurant \in UNION {NearbyRestaurants(point) : point \in UsablePoints}} :
              to \in UsablePoints}

\* requests the validation must reject
MalformedInput ==
    \E n \in 0..MaxStops, rows \in 0..(MaxStops + 1), badrow \in -1..MaxStops,
       badcols \in 0..(MaxStops + 1) :
        /\ rows \in {n - 1, n, n + 1}
        /\ badrow < rows
        /\ badcols \in {n - 1, n + 1}
        /\ start_idx \in {-1, 0, n - 1, n}
        /\ n = 0 \/ rows # n \/ badrow >= 0 \/ start_idx < 0 \/ start_idx >= n
        /\ locations = [i \in 0..(n-1) |-> Loc("A", 540, 1080, 60)]
        /\ travel_time =
             [i \in 0..(rows-1) |->
                [j \in 0..((IF i = badrow THEN badcols ELSE n) - 1) |->
                    IF i = j THEN 0 ELSE 10]]
        /\ start_time = 540
        /\ mode = "api"

\* api.py lines 454-463: the Location built from a location of the request,
\* `loc.priority if loc.priority is not None else 1`
ApiLocation(loc) ==
    [loc EXCEPT !.priority = IF @ = None THEN 1 ELSE @]

\* the travel matrices of the generated requests, and of those that carry a
\* priority
RequestKinds == {"uniform", "asym", "far"}
PriorityKinds == {"uniform"}

\* api.py lines 31-35 (LocationInput): the locations of a request carry the
\* priority the client sent, None when it sent none
WellFormedRequest ==
    \E n \in 1..(MaxStops + 1), kind \in RequestKinds, p \in Priorities :
        /\ p # None => kind \in PriorityKinds
        /\ mode = "api"
        /\ start_idx \in 0..(n-1)
        /\ locations \in [0..(n-1) ->
               {[loc EXCEPT !.priority = p] : loc \in Profiles \cup StartProfiles}]
        /\ [locations[start_idx] EXCEPT !.priority = None] \in StartProfiles
        /\ \A i \in 0..(n-1) :
               i # start_idx => [locations[i] EXCEPT !.priority = None] \in Profiles
        /\ travel_time = MakeMatrix(kind, n)
        /\ start_time \in StartTimes

InitApi ==
    /\ \/ WellFormedRequest
       \/ MalformedInput
    /\ include_lunch = TRUE /\ include_dinner = TRUE
    /\ return_to_hotel = FALSE
    /\ restaurant_locations = << >>
    /\ location_coords \in CoordsChoices(PyLen(locations))
    /\ pc = "validate"
    /\ Idle
    /\ NoCall /\ NoFanOut

\* mutant: `>` in place of `>=` in the start index check
InvalidRequestOffByOne ==
    LET n == PyLen(locations)
    IN  \/ n = 0
        \/ PyLen(travel_time) # n
        \/ \E i \in DOMAIN travel_time : PyLen(travel_time[i]) # n
        \/ start_idx < 0 \/ start_idx > n

\* api.py lines 430-451
InvalidRequest ==
    LET n == PyLen(locations)
    IN  \/ n = 0
        \/ PyLen(travel_time) # n
        \/ \E i \in DOMAIN travel_time : PyLen(travel_time[i]) # n
        \/ start_idx < 0 \/ start_idx >= n

\* api.py lines 432, 435, 442, 448 and 899-900: HTTPException(400) re-raised
ApiReject ==
    /\ pc = "validate"
    /\ InvalidRequest
    /\ pc' = "http400"
    /\ UNCHANGED <<inputVars, callVars, fanVars, buildVars, meal_times, apiVars, walk_i, genVars>>

\* api.py lines 454-476 and itinerary_algorithm.py lines 35-43: the call
ApiAccept ==
    /\ pc = "validate"
    /\ ~InvalidRequest
    /\ visited' = [i \in DOMAIN locations |-> FALSE]
    /\ route' = <<start_idx>>
    /\ current' = start_idx
    /\ current_time' = start_time
    /\ lunch_taken' = FALSE
    /\ meal_times' = EmptyDict
    /\ arrivals' = <<start_time>>
    /\ pc' = "loop"
    /\ locations' = [i \in DOMAIN locations |-> ApiLocation(locations[i])]
    /\ UNCHANGED <<mode, travel_time, start_idx, start_time, return_to_hotel,
                   restaurant_locations, location_coords, include_lunch,
                   include_dinner>>
    /\ UNCHANGED <<callVars, fanVars, step, apiVars, walk_i, genVars>>

----------------------------------------------------------------------------
(* POST /api/build-itinerary: the walk over the built route *)

DropKeys(dict, keys) == [k \in DOMAIN dict \ keys |-> dict[k]]

\* `request.location_coords and len(request.location_coords) > k`, then
\* `coords.lat and coords.lon`
HasCoords(k) == k \in DOMAIN location_coords /\ Usable(location_coords[k])

\* api.py lines 477-490
ApiStartWalk ==
    /\ pc = "built" /\ mode = "api"
    /\ end_time' = current_time
    /\ meal_times' =
         IF "dinner_location" \in DOMAIN meal_times
               /\ meal_times["dinner_location"] = start_idx
         THEN DropKeys(meal_times, {"dinner_location", "dinner_time"})
         ELSE meal_times
    /\ api_time' = start_time
    /\ final_route_indices' = <<route[1]>>
    /\ timeline' = <<start_time>>
    /\ current_idx' = route[1]
    /\ api_lunch_taken' = FALSE
    /\ lunch_restaurant' = NoLunchRestaurant
    /\ walk_i' = 1
    /\ pc' = "walk"
    /\ UNCHANGED <<inputVars, callVars, fanVars, buildVars, dinner_time_set, genVars>>

\* api.py lines 528-537
ShouldTakeLunchBefore(now, arrival, idx) ==
    /\ ~api_lunch_taken
    /\ \/ now >= 660
       \/ arrival + locations[idx].duration >= lunch_start
       \/ lunch_start <= arrival /\ arrival <= lunch_end
       \/ now < lunch_start /\ lunch_start - now <= 60

\* api.py lines 541-556: the index whose coordinates the search uses
SearchIdx(idx) ==
    IF current_idx >= 0 /\ current_idx \in DOMAIN location_coords
    THEN IF Usable(location_coords[current_idx]) THEN current_idx ELSE None
    ELSE IF idx \in DOMAIN location_coords
         THEN IF Usable(location_coords[idx]) THEN idx ELSE None
         ELSE None

\* api.py lines 559-566: lunch_restaurant after the lookups
LunchLookup(idx, answer) ==
    IF SearchIdx(idx) # None THEN answer
    ELSE IF HasCoords(start_idx) THEN answer
    ELSE lunch_restaurant

\* mutant: the late lunch tested on the arrival instead of the finish time
LateLunchOnArrival(finish_time, idx) ==
    /\ ~api_lunch_taken
    /\ lunch_start <= finish_time - locations[idx].duration
    /\ finish_time - locations[idx].duration <= lunch_end
    /\ HasCoords(idx)

\* api.py lines 631-638: the lunch after the visit is due (the lookup near
\* the location always returns a restaurant)
LateLunch(finish_time, idx) ==
    /\ ~api_lunch_taken
    /\ lunch_start <= finish_time /\ finish_time <= lunch_end
    /\ HasCoords(idx)

\* api.py lines 493-678: one iteration of `for i in range(1, len(route_indices))`
ApiWalkStep ==
    /\ pc = "walk" /\ walk_i < Len(route)
    /\ LET idx == route[walk_i + 1]
           travel ==
               IF current_idx = LUNCH_MARK /\ lunch_restaurant # NoLunchRestaurant
               THEN IF HasCoords(idx)
                    THEN TravelMinutes(lunch_restaurant, location_coords[idx])
                    ELSE DefaultTravel
               ELSE IF current_idx >= 0 THEN TT(current_idx, idx)
                    ELSE DefaultTravel
           arrival == Max(api_time + travel, locations[idx].open)
           before == ShouldTakeLunchBefore(api_time, arrival, idx)
           finish_time == arrival + locations[idx].duration
           \* the point of the lookup this iteration makes, if it makes one
           point ==
               IF before /\ SearchIdx(idx) # None
               THEN location_coords[SearchIdx(idx)]
               ELSE IF before /\ HasCoords(start_idx)
               THEN location_coords[start_idx]
               ELSE IF HasCoords(idx) THEN location_coords[idx]
               ELSE NullCoords
       IN \E answer \in NearbyRestaurants(point) :
        LET found == IF before THEN LunchLookup(idx, answer) ELSE lunch_restaurant
        IN  IF before /\ found # NoLunchRestaurant
            THEN IF SearchIdx(idx) = None
                 THEN \* math.radians(search_lat) with search_lat None
                      /\ pc' = "http500"
                      /\ lunch_restaurant' = found
                      /\ UNCHANGED <<final_route_indices, timeline, api_time,
                                     current_idx, api_lunch_taken, meal_times,
                                     walk_i>>
                 ELSE LET lunch_arrival ==
                              Max(api_time + TravelMinutes(point, found), lunch_start)
                          lunch_over == lunch_arrival + 60
                          arrival_from_lunch ==
                              Max(lunch_over + TravelMinutes(found, location_coords[idx]),
                                  locations[idx].open)
                      IN  /\ lunch_restaurant' = found
                          /\ api_lunch_taken' = TRUE
                          /\ meal_times' = SetKeys(meal_times,
                                 [lunch_time |-> lunch_arrival,
                                  lunch_location |-> found.name,
                                  lunch_address |-> found.address])
                          /\ IF HasCoords(idx)
                             THEN /\ final_route_indices' =
                                       final_route_indices \o <<LUNCH_MARK, idx>>
                                  /\ timeline' =
                                       timeline \o <<lunch_arrival, arrival_from_lunch>>
                                  /\ api_time' =
                                       arrival_from_lunch + locations[idx].duration
                                  /\ current_idx' = idx
                             ELSE /\ final_route_indices' =
                                       Append(final_route_indices, LUNCH_MARK)
                                  /\ timeline' = Append(timeline, lunch_arrival)
                                  /\ api_time' = lunch_over
                                  /\ current_idx' = LUNCH_MARK
                          /\ walk_i' = walk_i + 1
                          /\ pc' = pc
            ELSE IF LateLunch(finish_time, idx)
                 THEN LET lunch_arrival ==
                              Max(finish_time + TravelMinutes(point, answer), lunch_start)
                      IN  /\ lunch_restaurant' = answer
                          /\ api_lunch_taken' = TRUE
                          /\ final_route_indices' =
                               final_route_indices \o <<idx, LUNCH_MARK>>
                          /\ timeline' = timeline \o <<arrival, lunch_arrival>>
                          /\ api_time' = lunch_arrival + 60
                          /\ current_idx' = LUNCH_MARK
                          /\ meal_times' = SetKeys(meal_times,
                                 [lunch_time |-> lunch_arrival,
                                  lunch_location |-> answer.name,
                                  lunch_address |-> answer.address])
                          /\ walk_i' = walk_i + 1
                          /\ pc' = pc
                 ELSE /\ final_route_indices' =
                           IF Last(final_route_indices) # idx
                           THEN Append(final_route_indices, idx)
                           ELSE final_route_indices
                      /\ timeline' =
                           IF Last(final_route_indices) # idx
                           THEN Append(timeline, arrival)
                           ELSE timeline
                      /\ api_time' = finish_time
                      /\ current_idx' = idx
                      /\ lunch_restaurant' = found
                      /\ walk_i' = walk_i + 1
                      /\ pc' = pc
                      /\ UNCHANGED <<api_lunch_taken, meal_times>>
    /\ UNCHANGED <<inputVars, callVars, fanVars, buildVars, dinner_time_set, end_time, genVars>>

\* api.py lines 685-689: the last entry of the route that is a location
RECURSIVE LastLocation(_, _)
LastLocation(r, k) ==
    IF k < 1 THEN None
    ELSE IF r[k] >= 0 THEN r[k] ELSE LastLocation(r, k - 1)

\* api.py lines 692-704: the dinner lookup happens and returns a restaurant
DinnerLookup(last) == HasCoords(last)

\* api.py lines 719-725
DinnerStart(now, travel_to_dinner) ==
    IF 1140 <= now /\ now < 1260 /\ now + travel_to_dinner < 1260
    THEN 1260
    ELSE now + travel_to_dinner

\* api.py lines 680-775: the dinner stop and the end time
ApiDinner ==
    /\ pc = "walk" /\ walk_i >= Len(route)
    /\ LET last_location_idx ==
               LastLocation(final_route_indices, Len(final_route_indices))
           point == IF last_location_idx # None /\ HasCoords(last_location_idx)
                    THEN location_coords[last_location_idx]
                    ELSE NullCoords
       IN \E dinner_restaurant \in NearbyRestaurants(point) :
        LET dinner_start ==
                DinnerStart(api_time, TravelMinutes(point, dinner_restaurant))
            dinner_end == dinner_start + 60
        IN  IF last_location_idx # None /\ last_location_idx # start_idx
            THEN IF DinnerLookup(last_location_idx)
                 THEN IF start_idx \notin DOMAIN location_coords
                      THEN \* line 728: location_coords[start_idx] out of range
                           /\ pc' = "http500"
                           /\ final_route_indices' =
                                Append(final_route_indices, DINNER_MARK)
                           /\ timeline' = Append(timeline, dinner_start)
                           /\ UNCHANGED <<end_time, meal_times, dinner_time_set>>
                      ELSE /\ pc' = "hotel"
                           /\ final_route_indices' =
                                Append(final_route_indices, DINNER_MARK)
                           /\ timeline' = Append(timeline, dinner_start)
                           /\ end_time' = IF Usable(location_coords[start_idx])
                                          THEN dinner_end
                                               + TravelMinutes(dinner_restaurant,
                                                         location_coords[start_idx])
                                          ELSE dinner_end
                           /\ meal_times' = SetKeys(meal_times,
                                  [dinner_time |-> dinner_start,
                                   dinner_location |-> dinner_restaurant.name,
                                   dinner_address |-> dinner_restaurant.address])
                           /\ dinner_time_set' = TRUE
                 ELSE IF start_idx \notin DOMAIN location_coords
                      THEN \* line 753: location_coords is None or too short
                           /\ pc' = "http500"
                           /\ UNCHANGED <<final_route_indices, timeline, end_time,
                                          meal_times, dinner_time_set>>
                      ELSE /\ pc' = "hotel"
                           /\ end_time' = api_time
                           /\ UNCHANGED <<final_route_indices, timeline,
                                          meal_times, dinner_time_set>>
            ELSE /\ pc' = "hotel"
                 /\ end_time' = api_time
                 /\ UNCHANGED <<final_route_indices, timeline, meal_times,
                                dinner_time_set>>
    /\ UNCHANGED <<inputVars, callVars, fanVars, buildVars, api_time, current_idx, api_lunch_taken,
                   lunch_restaurant, walk_i, genVars>>

\* mutant: the start index is not appended after a dinner stop
HotelMissingNoDinner ==
    /\ Last(final_route_indices) # start_idx
    /\ Last(final_route_indices) # DINNER_MARK

\* api.py line 779: the route does not end with the start index yet
HotelMissing == Last(final_route_indices) # start_idx

\* api.py lines 777-897: the start index closes the route, the response
ApiRespond ==
    /\ pc = "hotel"
    /\ IF HotelMissing
       THEN /\ final_route_indices' = Append(final_route_indices, start_idx)
            /\ timeline' = Append(timeline, end_time)
       ELSE UNCHANGED <<final_route_indices, timeline>>
    /\ pc' = "http200"
    /\ UNCHANGED <<inputVars, callVars, fanVars, buildVars, meal_times, api_time, current_idx,
                   api_lunch_taken, lunch_restaurant, dinner_time_set, end_time,
                   walk_i, genVars>>

NextApi ==
    \/ ApiReject \/ ApiAccept
    \/ BuildLunch \/ BuildSelect \/ BuildReturn
    \/ ApiStartWalk \/ ApiWalkStep \/ ApiDinner \/ ApiRespond
SpecApi == InitApi /\ [][NextApi]_vars

----------------------------------------------------------------------------
(* generate_itinerary (backend/itinerary_generator.py), from step 3 on *)

\* (open_time, close_time) of the record find_restaurant_near_location returns
RestaurantHours == { <<720, 1320>>, <<540, 1260>>, <<600, 700>> }

\* lines 81-90: the duration follows from the name (60, 180 for a museum,
\* 90 for a tower, 120 for a park); the hours are those of the lookup,
\* which location_services.py lines 331-353 fix by the name for a museum
\* (540-1080) and a tower (540-1140) and take from Overpass otherwise
GenProfiles == { Loc("Louvre Museum", 540, 1080, 180),
                 Loc("Eiffel Tower", 540, 1140, 90),
                 Loc("City Park", 0, 1440, 120),
                 Loc("Night Market", 1200, 1300, 60),
                 Loc("Old Bakery", 0, 550, 60) }

\* lines 114-123: Location(..., priority=1)
GenLocation(loc) == [loc EXCEPT !.priority = 1]

InitGen ==
    /\ \E n \in 1..(MaxStops + 1), kind \in MatrixKinds :
        /\ mode = "gen"
        /\ start_idx = 0
        /\ locations \in [0..(n-1) -> {GenLocation(loc) : loc \in GenProfiles}]
        /\ travel_time = MakeMatrix(kind, n)
        /\ start_time \in StartTimes
    /\ include_lunch \in BOOLEAN /\ include_dinner \in BOOLEAN
    /\ return_to_hotel = FALSE
    /\ restaurant_locations = << >>
    /\ location_coords = [i \in DOMAIN locations |-> SetCoords]
    /\ pc = "loop"
    /\ visited = [i \in DOMAIN locations |-> FALSE]
    /\ route = <<start_idx>> /\ current = start_idx /\ current_time = start_time
    /\ lunch_taken = FALSE /\ meal_times = EmptyDict
    /\ arrivals = <<start_time>> /\ step = "none"
    /\ final_route_indices = << >> /\ api_time = None /\ current_idx = None
    /\ api_lunch_taken = FALSE /\ lunch_restaurant = NoLunchRestaurant
    /\ dinner_time_set = FALSE /\ end_time = None /\ walk_i = 0
    /\ timeline = << >>
    /\ itinerary_items = << >> /\ gen_time = None /\ lunch_added = FALSE
    /\ skipped_locations = << >>
    /\ NoCall /\ NoFanOut

\* lines 38-48
can_visit_location(arrival_time, duration, open_time, close_time) ==
    IF open_time = 0 /\ close_time = 1440 THEN TRUE
    ELSE Max(arrival_time, open_time) + duration <= close_time

\* mutant: `not lunch_added` lost from the test
LunchDueAgain(at) == include_lunch /\ 660 <= at /\ at <= 900

\* line 188
LunchDue(at) == include_lunch /\ ~lunch_added /\ 660 <= at /\ at <= 900

Item(meal, idx, time) == [isMeal |-> meal, idx |-> idx, time |-> time]

\* lines 16-24: the listed time, as <<display hour, minutes, period>>
format_time_12hr(minutes) ==
    LET hours == minutes \div 60
        mins == minutes % 60
        period == IF hours < 12 THEN "AM" ELSE "PM"
        display_hour == IF hours <= 12 THEN hours ELSE hours - 12
    IN  <<IF display_hour = 0 THEN 12 ELSE display_hour, mins, period>>

\* lines 139-147
GenStartWalk ==
    /\ pc = "built" /\ mode = "gen"
    /\ itinerary_items' = << >>
    /\ gen_time' = start_time
    /\ lunch_added' = FALSE
    /\ skipped_locations' = << >>
    /\ walk_i' = 0
    /\ pc' = "gen_walk"
    /\ UNCHANGED <<inputVars, callVars, fanVars, buildVars, meal_times, apiVars>>

\* lines 149-268: one iteration of `for i, idx in enumerate(route_indices)`,
\* whole when no lunch is looked for, and up to the await of line 193, with
\* current_time already advanced, when one is
GenWalkStep ==
    /\ pc = "gen_walk" /\ walk_i < Len(route)
    /\ LET idx == route[walk_i + 1]
           loc == locations[idx]
           reached == IF walk_i > 0
                      THEN gen_time + TT(route[walk_i], idx)
                      ELSE gen_time
           fits == can_visit_location(reached, loc.duration, loc.open, loc.close)
           skip == ~fits /\ (reached >= loc.open \/ loc.open - reached > 120)
           at == Max(reached, loc.open)
       IN  IF skip
           THEN /\ skipped_locations' = Append(skipped_locations, idx)
                /\ gen_time' = reached
                /\ walk_i' = walk_i + 1
                /\ UNCHANGED <<itinerary_items, pc>>
           ELSE IF LunchDue(at)
                THEN /\ gen_time' = at
                     /\ pc' = "gen_lookup"
                     /\ UNCHANGED <<itinerary_items, skipped_locations, walk_i>>
                ELSE /\ itinerary_items' =
                          Append(itinerary_items, Item("None", idx, at))
                     /\ gen_time' = at + loc.duration
                     /\ walk_i' = walk_i + 1
                     /\ UNCHANGED <<skipped_locations, pc>>
    /\ UNCHANGED <<inputVars, callVars, fanVars, buildVars, meal_times, apiVars,
                   lunch_added>>

\* lines 193-268: find_restaurant_near_location has returned; the lunch, if
\* the restaurant's hours allow it, and the rest of the iteration
GenLunchReturn ==
    /\ pc = "gen_lookup"
    /\ \E hours \in RestaurantHours :
        LET idx == route[walk_i + 1]
            loc == locations[idx]
            lunch_time == Max(gen_time, hours[1])
            lunch == lunch_time + 60 <= hours[2]
            visit == IF lunch THEN lunch_time + 60 ELSE gen_time
        IN  /\ itinerary_items' =
                 IF lunch
                 THEN itinerary_items
                        \o <<Item("lunch", LUNCH_MARK, lunch_time),
                             Item("None", idx, visit)>>
                 ELSE Append(itinerary_items, Item("None", idx, visit))
            /\ lunch_added' = (lunch_added \/ lunch)
            /\ gen_time' = visit + loc.duration
    /\ walk_i' = walk_i + 1
    /\ pc' = "gen_walk"
    /\ UNCHANGED <<inputVars, callVars, fanVars, buildVars, meal_times, apiVars,
                   skipped_locations>>

\* lines 270-325: the dinner stop, then ValueError when nothing was scheduled
GenDinner ==
    /\ pc = "gen_walk" /\ walk_i >= Len(route)
    /\ \E hours \in RestaurantHours :
        LET dinner_time == IF gen_time < 1140
                           THEN Max(1140, hours[1])
                           ELSE Max(gen_time, hours[1])
            dinner == /\ include_dinner /\ Len(itinerary_items) > 0
                      /\ dinner_time + 60 <= hours[2]
        IN  IF dinner
            THEN /\ itinerary_items' =
                      Append(itinerary_items, Item("dinner", DINNER_MARK, dinner_time))
                 /\ gen_time' = dinner_time + 60
                 /\ pc' = "gen_done"
            ELSE /\ UNCHANGED <<itinerary_items, gen_time>>
                 /\ pc' = IF Len(itinerary_items) = 0 THEN "gen_error" ELSE "gen_done"
    /\ UNCHANGED <<inputVars, callVars, fanVars, buildVars, meal_times, apiVars, walk_i,
                   lunch_added, skipped_locations>>

NextGen ==
    \/ BuildLunch \/ BuildSelect \/ BuildReturn
    \/ GenStartWalk \/ GenWalkStep \/ GenLunchReturn \/ GenDinner
SpecGen == InitGen /\ [][NextGen]_vars

----------------------------------------------------------------------------
(* generate_itinerary of backend/itinerary/itinerary_generator.py, the
   variant that looks the lunch restaurants up concurrently, from step 4 on *)

\* the locations of the requests of this variant
FanProfiles == { Loc("Eiffel Tower", 540, 1140, 90),
                 Loc("City Park", 0, 1440, 120),
                 Loc("Old Bakery", 0, 550, 60) }

\* the restaurant the provider has near a location
NearbyName(idx) == IF idx % 2 = 0 THEN "Bistro Paul" ELSE "Chez Paul"

\* lines 103-112: Location(..., priority=1)
FanLocation(loc) == [loc EXCEPT !.priority = 1]

\* request.batch: what the provider answers to the lookups of the batch;
\* request.direct: what it answers to the lookups of the loop, which are the
\* same restaurants or, when the provider no longer answers, the synthetic one
InitFan ==
    /\ \E n \in 1..(MaxStops + 1), kind \in {"uniform", "line"} :
        /\ mode = "fanout"
        /\ start_idx = 0
        /\ locations \in [0..(n-1) -> {FanLocation(loc) : loc \in FanProfiles}]
        /\ travel_time = MakeMatrix(kind, n)
        /\ start_time \in StartTimes
    /\ include_lunch = TRUE /\ include_dinner \in BOOLEAN
    /\ return_to_hotel = FALSE
    /\ restaurant_locations = << >>
    /\ location_coords = [i \in DOMAIN locations |-> SetCoords]
    /\ pc = "loop"
    /\ visited = [i \in DOMAIN locations |-> FALSE]
    /\ route = <<start_idx>> /\ current = start_idx /\ current_time = start_time
    /\ lunch_taken = FALSE /\ meal_times = EmptyDict
    /\ arrivals = <<start_time>> /\ step = "none"
    /\ final_route_indices = << >> /\ api_time = None /\ current_idx = None
    /\ api_lunch_taken = FALSE /\ lunch_restaurant = NoLunchRestaurant
    /\ dinner_time_set = FALSE /\ end_time = None /\ walk_i = 0
    /\ timeline = << >>
    /\ itinerary_items = << >> /\ gen_time = None /\ lunch_added = FALSE
    /\ skipped_locations = << >>
    /\ \E answers \in {"same", "synthetic"} :
          request = [fn |-> "fanout",
                     batch |-> [i \in DOMAIN locations |-> NearbyName(i)],
                     direct |-> [i \in DOMAIN locations |->
                                   IF answers = "same" THEN NearbyName(i)
                                   ELSE FoundRestaurant]]
    /\ response = [fn |-> "none"]
    /\ first_call = << >>
    /\ NoFanOut

\* a lookup handed to gather: the stop it is for, and its result once done
Task(idx) == [idx |-> idx, done |-> FALSE, result |-> << >>]

\* lines 128-144: the state of the loop, and one task per stop of the route
FanOut ==
    /\ pc = "built" /\ mode = "fanout"
    /\ itinerary_items' = << >>
    /\ gen_time' = start_time
    /\ lunch_added' = FALSE
    /\ lunch_tasks' = [k \in DOMAIN route |-> Task(route[k])]
    /\ lunch_results_list' = << >>
    /\ lunch_map' = << >>
    /\ first_done' = 0
    /\ walk_i' = 0
    /\ pc' = "gather"
    /\ UNCHANGED <<inputVars, callVars, buildVars, meal_times, apiVars,
                   skipped_locations>>

\* lines 136-138: fetch_potential_lunch of one task returns, in any order
LookupDone ==
    /\ pc = "gather"
    /\ \E k \in DOMAIN lunch_tasks :
        /\ ~lunch_tasks[k].done
        /\ lunch_tasks' =
             [lunch_tasks EXCEPT ![k] =
                [idx |-> @.idx, done |-> TRUE,
                 result |-> <<@.idx, request.batch[@.idx]>>]]
        /\ first_done' = IF first_done = 0 THEN k ELSE first_done
    /\ UNCHANGED <<inputVars, callVars, pc, buildVars, meal_times, apiVars, walk_i,
                   genVars, lunch_results_list, lunch_map>>

\* mutant: gather returns as soon as one lookup has completed
GatherReadyFirst == \E k \in DOMAIN lunch_tasks : lunch_tasks[k].done

\* line 147: asyncio.gather returns when every awaitable has completed
GatherReady == \A k \in DOMAIN lunch_tasks : lunch_tasks[k].done

\* line 150: {idx: res for idx, res in lunch_results_list}, a later pair
\* replacing an earlier one with the same idx
DictOfPairs(list) ==
    LET pairs == { k \in DOMAIN list : Len(list[k]) = 2 }
        keys == { list[k][1] : k \in pairs }
    IN  [i \in keys |->
           list[CHOOSE k \in pairs :
                   /\ list[k][1] = i
                   /\ \A j \in pairs : list[j][1] = i => j <= k][2]]

\* lines 147-150: the results in the order of the tasks, then the mapping
GatherJoin ==
    /\ pc = "gather"
    /\ GatherReady
    /\ lunch_results_list' = [k \in DOMAIN lunch_tasks |-> lunch_tasks[k].result]
    /\ lunch_map' = DictOfPairs(lunch_results_list')
    /\ pc' = "fan_walk"
    /\ UNCHANGED <<inputVars, callVars, buildVars, meal_times, apiVars, walk_i,
                   genVars, lunch_tasks, first_done>>

FanItem(meal, idx, time, name) ==
    [isMeal |-> meal, idx |-> idx, time |-> time, name |-> name]

\* lines 152-230: one iteration of `for i, idx in enumerate(route_indices)`,
\* whole when no lunch is looked for, and up to the await of line 172, with
\* current_time already advanced, when one is
FanWalkStep ==
    /\ pc = "fan_walk" /\ walk_i < Len(route)
    /\ LET idx == route[walk_i + 1]
           loc == locations[idx]
           reached == IF walk_i > 0
                      THEN gen_time + TT(route[walk_i], idx)
                      ELSE gen_time
           at == Max(reached, loc.open)
           lunch == include_lunch /\ ~lunch_added /\ 660 <= at /\ at <= 900
       IN  IF lunch
           THEN /\ gen_time' = at
                /\ pc' = "fan_lookup"
                /\ UNCHANGED <<itinerary_items, walk_i>>
           ELSE /\ itinerary_items' =
                     Append(itinerary_items, FanItem("None", idx, at, loc.name))
                /\ gen_time' = at + loc.duration
                /\ walk_i' = walk_i + 1
                /\ pc' = pc
    /\ UNCHANGED <<inputVars, callVars, fanVars, buildVars, meal_times, apiVars,
                   lunch_added, skipped_locations>>

\* lines 172-230: the restaurant is looked up again and has been returned
\* (lunch_map is not read); the lunch and the rest of the iteration
FanLunchReturn ==
    /\ pc = "fan_lookup"
    /\ LET idx == route[walk_i + 1]
           loc == locations[idx]
       IN  /\ itinerary_items' =
                itinerary_items
                  \o <<FanItem("lunch", LUNCH_MARK, gen_time, request.direct[idx]),
                       FanItem("None", idx, gen_time + 60, loc.name)>>
           /\ gen_time' = gen_time + 60 + loc.duration
    /\ lunch_added' = TRUE
    /\ walk_i' = walk_i + 1
    /\ pc' = "fan_walk"
    /\ UNCHANGED <<inputVars, callVars, fanVars, buildVars, meal_times, apiVars,
                   skipped_locations>>

\* lines 232-298: the dinner stop and the result
FanDinner ==
    /\ pc = "fan_walk" /\ walk_i >= Len(route)
    /\ IF include_dinner /\ Len(route) > 0
       THEN /\ gen_time' = Max(gen_time, 1140)
            /\ itinerary_items' =
                 Append(itinerary_items,
                        FanItem("dinner", DINNER_MARK, gen_time',
                                request.direct[Last(route)]))
       ELSE UNCHANGED <<itinerary_items, gen_time>>
    /\ pc' = "fan_done"
    /\ UNCHANGED <<inputVars, callVars, fanVars, buildVars, meal_times, apiVars,
                   walk_i, lunch_added, skipped_locations>>

\* the same request served once more, from step 5 on, the provider giving
\* the same answers
FanAgain ==
    /\ pc = "fan_done" /\ mode = "fanout"
    /\ first_call = << >>
    /\ first_call' = <<itinerary_items, first_done, gen_time>>
    /\ pc' = "built"
    /\ UNCHANGED <<inputVars, request, response, fanVars, buildVars, meal_times,
                   apiVars, walk_i, genVars>>

NextFan ==
    \/ BuildLunch \/ BuildSelect \/ BuildReturn
    \/ FanOut \/ LookupDone \/ GatherJoin \/ FanWalkStep \/ FanLunchReturn
    \/ FanDinner
    \/ FanAgain
SpecFan == InitFan /\ [][NextFan]_vars

----------------------------------------------------------------------------
(* location_services.py: calculate_travel_time_matrix *)

\* no itinerary request is in progress
NoItinerary ==
    /\ locations = << >> /\ travel_time = << >>
    /\ start_idx = None /\ start_time = None
    /\ return_to_hotel = FALSE /\ restaurant_locations = << >>
    /\ location_coords = << >>
    /\ include_lunch = FALSE /\ include_dinner = FALSE

\* a coordinate is a point of one meridian, in tenths of a degree of latitude
CoordPoints == {0, 2}

\* lines 150-163: max(1, int(distance_km * 1.2)); a tenth of a degree of
\* latitude is 11.119 km
estimate_travel_time(coord1, coord2) ==
    Max(1, (13343 * Abs(coord1 - coord2)) \div 1000)

\* lines 208 and 248: seconds to minutes, rounded up, at least 1
Minutes(seconds) ==
    Max(1, (seconds \div 60) + (IF seconds % 60 > 0 THEN 1 ELSE 0))

\* what the Geoapify routing call of one cell does: a route, a 200 answer
\* without features, another status, a timeout or other exception
GeoOutcomes == {"route", "nofeatures", "status500", "timeout"}
\* what the OpenRouteService matrix call does: durations for every pair, a
\* 200 answer without "durations", durations holding null, a status for
\* which raise_for_status raises, a timeout
OrsOutcomes == {"durations", "nodurations", "nulls", "status500", "timeout"}
\* the time in seconds of a route the provider reports (0: no "time" field)
RouteSeconds == {0, 61, 600}

Pairs(n) == { p \in (0..(n-1)) \X (0..(n-1)) : p[1] # p[2] }

InitMatrix ==
    /\ mode = "matrix" /\ pc = "call"
    /\ \E n \in 0..MaxCoords, sec \in RouteSeconds :
         \E coords \in [0..(n-1) -> CoordPoints] :
            \/ \E cells \in [Pairs(n) -> GeoOutcomes], ors_key \in BOOLEAN :
                  request = [fn |-> "matrix", coordinates |-> coords,
                             geoapify_key |-> TRUE, ors_key |-> ors_key,
                             cells |-> cells, ors |-> "timeout", seconds |-> sec]
            \/ \E ors \in OrsOutcomes, ors_key \in BOOLEAN :
                  request = [fn |-> "matrix", coordinates |-> coords,
                             geoapify_key |-> FALSE, ors_key |-> ors_key,
                             cells |-> [p \in Pairs(n) |-> "timeout"],
                             ors |-> ors, seconds |-> sec]
    /\ response = [fn |-> "none"]
    /\ first_call = << >>
    /\ NoItinerary /\ Idle /\ NoFanOut

\* lines 253-262 and 266-275: the straight-line estimate for every pair
EstimateMatrix(coords) ==
    [i \in DOMAIN coords |->
        [j \in DOMAIN coords |->
            IF i = j THEN 0 ELSE estimate_travel_time(coords[i], coords[j])]]

\* lines 185-220: one routing call per pair, the estimate when it fails
GeoapifyMatrix(req) ==
    [i \in DOMAIN req.coordinates |->
        [j \in DOMAIN req.coordinates |->
            IF i = j THEN 0
            ELSE IF req.cells[<<i, j>>] = "route" THEN Minutes(req.seconds)
            ELSE estimate_travel_time(req.coordinates[i], req.coordinates[j])]]

\* lines 240-250: every cell of data["durations"] converted, the diagonal too
OrsMatrix(req) ==
    IF req.ors = "nodurations" THEN << >>
    ELSE [i \in DOMAIN req.coordinates |->
            [j \in DOMAIN req.coordinates |->
                Minutes(IF i = j THEN 0 ELSE req.seconds)]]

\* lines 166-275
calculate_travel_time_matrix(req) ==
    IF PyLen(req.coordinates) = 0 THEN << >>
    ELSE IF req.geoapify_key THEN GeoapifyMatrix(req)
    ELSE IF req.ors_key
         THEN IF req.ors \in {"durations", "nodurations"}
              THEN OrsMatrix(req)
              ELSE \* raise_for_status, a timeout or int(None / 60) raises
                   EstimateMatrix(req.coordinates)
    ELSE EstimateMatrix(req.coordinates)

CalcMatrix ==
    /\ mode = "matrix" /\ pc = "call"
    /\ response' = [fn |-> "matrix",
                    matrix |-> calculate_travel_time_matrix(request)]
    /\ pc' = "returned"
    /\ UNCHANGED <<inputVars, request, first_call, fanVars, buildVars, meal_times,
                   apiVars, walk_i, genVars>>

----------------------------------------------------------------------------
(* location_services.py: find_restaurant_near_location *)

\* what one Nominatim query does: a timeout or other exception, a status
\* other than 200, no restaurant among the items, a restaurant outside
\* radius_m, or a restaurant inside it
QueryOutcomes == {"timeout", "status500", "nothing", "far", "Bistro Paul", "Chez Paul"}
RealMatches == {"Bistro Paul", "Chez Paul"}
\* what the Overpass lookup of get_opening_hours_by_coords yields: its
\* default, "24/7", or a parsed range
OverpassHours == { <<540, 1260>>, <<0, 1440>>, <<660, 1380>> }

InitRestaurant ==
    /\ mode = "restaurant" /\ pc = "call"
    /\ \E client \in {"ok", "raise"}, hours \in OverpassHours :
         \E queries \in [1..3 -> QueryOutcomes] :
            request = [fn |-> "restaurant", client |-> client,
                       queries |-> queries, overpass |-> hours]
    /\ response = [fn |-> "none"]
    /\ first_call = << >>
    /\ NoItinerary /\ Idle /\ NoFanOut

\* lines 450-517: the queries in order, stopping at the first that yields a
\* restaurant within the radius; an exception or a status skips the query
RECURSIVE FirstMatch(_, _)
FirstMatch(queries, k) ==
    IF k > Len(queries) THEN NoRestaurant
    ELSE IF queries[k] \in RealMatches THEN queries[k]
    ELSE FirstMatch(queries, k + 1)

\* lines 325-414: the hours by keyword of the name, else those of Overpass
get_opening_hours_by_coords(name, overpass) ==
    IF name = "Bistro Paul" THEN <<720, 1320>> ELSE overpass

\* mutant: the fallbacks return None, as the docstring says
SyntheticNone(distance_m) == [null |-> TRUE]

\* lines 523-531 and 554-562
Synthetic(distance_m) ==
    [name |-> FoundRestaurant, open_time |-> 720, close_time |-> 1320,
     distance_m |-> distance_m]

\* lines 424-562
find_restaurant_near_location(req) ==
    IF req.client = "raise" THEN Synthetic(0)
    ELSE LET closest == FirstMatch(req.queries, 1)
         IN  IF closest = NoRestaurant THEN Synthetic(100)
             ELSE LET hours == get_opening_hours_by_coords(closest, req.overpass)
                  IN  [name |-> closest, open_time |-> hours[1],
                       close_time |-> hours[2], distance_m |-> 300]

FindRestaurant ==
    /\ mode = "restaurant" /\ pc = "call"
    /\ response' = [fn |-> "restaurant",
                    result |-> find_restaurant_near_location(request)]
    /\ pc' = "returned"
    /\ UNCHANGED <<inputVars, request, first_call, fanVars, buildVars, meal_times,
                   apiVars, walk_i, genVars>>

----------------------------------------------------------------------------
(* main.py: POST /analyze-videos *)

BodyVideoUrls == {"missing", "string", "empty", "list"}
BodyPrompt == {"missing", "number", "empty", "string"}

\* request bodies that are not JSON: empty, plain text, text after leading
\* white space or after a value, an unquoted key, a truncated object, a
\* missing colon, a trailing comma, an unterminated string
InvalidBodies ==
    {"", "hello", " hello", "\nhello", "123 Main Street", "{video_urls: []}",
     "{\"prompt\": ", "{\"video_urls\": [\"u\"], \"prompt\" \"p\"}",
     "[1,]", "\"abc"}

InitAnalyze ==
    /\ mode = "analyze" /\ pc = "call"
    /\ \E json \in {"ok"} \cup InvalidBodies, urls \in BodyVideoUrls,
          prompt \in BodyPrompt, found \in {"empty", "list"} :
            request = [fn |-> "analyze", json |-> json, video_urls |-> urls,
                       prompt |-> prompt, found |-> found]
    /\ response = [fn |-> "none"]
    /\ first_call = << >>
    /\ NoItinerary /\ Idle /\ NoFanOut

\* scrape_test.py line 113: def extract_video_urls(query, max_results=20)
ExtractRequiredArgs == 1
\* main.py line 71: scrape_test.extract_video_urls()
ExtractPassedArgs == 0

MissingArgument ==
    "extract_video_urls() missing 1 required positional argument: 'query'"

\* main.py line 69: str(e) of the json.JSONDecodeError that
\* `await request.json()` raises for a body of InvalidBodies, the message
\* with the line, column and offset where the decoder stopped
InvalidJson(body) ==
    CASE body \in {"", "hello"} -> "Expecting value: line 1 column 1 (char 0)"
      [] body = " hello" -> "Expecting value: line 1 column 2 (char 1)"
      [] body = "\nhello" -> "Expecting value: line 2 column 1 (char 1)"
      [] body = "123 Main Street" -> "Extra data: line 1 column 5 (char 4)"
      [] body = "{video_urls: []}" ->
           "Expecting property name enclosed in double quotes: line 1 column 2 (char 1)"
      [] body = "{\"prompt\": " -> "Expecting value: line 1 column 12 (char 11)"
      [] body = "{\"video_urls\": [\"u\"], \"prompt\" \"p\"}" ->
           "Expecting ':' delimiter: line 1 column 32 (char 31)"
      [] body = "[1,]" -> "Expecting value: line 1 column 4 (char 3)"
      [] body = "\"abc" ->
           "Unterminated string starting at: line 1 column 1 (char 0)"

\* main.py lines 67-115
analyze_videos(req) ==
    IF req.json \in InvalidBodies
    THEN [status |-> 500, error |-> InvalidJson(req.json)]
    ELSE IF ExtractPassedArgs < ExtractRequiredArgs
    THEN \* TypeError at the call of line 71, caught at line 111
         [status |-> 500, error |-> MissingArgument]
    ELSE \* video_urls is what the scrape found, never the body's value
         IF req.found = "empty"
         THEN [status |-> 400, error |-> "video_urls must be a non-empty list"]
         ELSE IF req.prompt # "string"
         THEN [status |-> 400, error |-> "prompt must be a string"]
         ELSE [status |-> 500,
               error |-> "name 'process_multiple_videos_from_urls' is not defined"]

AnalyzeVideos ==
    /\ mode = "analyze" /\ pc = "call"
    /\ response' = [fn |-> "analyze"] @@ analyze_videos(request)
    /\ pc' = "returned"
    /\ UNCHANGED <<inputVars, request, first_call, fanVars, buildVars, meal_times,
                   apiVars, walk_i, genVars>>

InitServices == InitMatrix \/ InitRestaurant \/ InitAnalyze
NextServices == CalcMatrix \/ FindRestaurant \/ AnalyzeVideos
SpecServices == InitServices /\ [][NextServices]_vars

Init == InitAlgo \/ InitApi \/ InitGen \/ InitFan \/ InitServices
Next ==
    \/ BuildLunch \/ BuildSelect \/ BuildReturn \/ CallAgain
    \/ ApiReject \/ ApiAccept
    \/ ApiStartWalk \/ ApiWalkStep \/ ApiDinner \/ ApiRespond
    \/ GenStartWalk \/ GenWalkStep \/ GenLunchReturn \/ GenDinner
    \/ FanOut \/ LookupDone \/ GatherJoin \/ FanWalkStep \/ FanLunchReturn
    \/ FanDinner \/ FanAgain
    \/ CalcMatrix \/ FindRestaurant \/ AnalyzeVideos
Spec == Init /\ [][Next]_vars

----------------------------------------------------------------------------
(* Claims about build_itinerary *)

Appended == Last(route')
BuildAppends == pc = "loop" /\ step' \in {"lunch", "select"}
NormalSelect == pc = "loop" /\ step' = "select"

\* a candidate in the sense of the glossary: unvisited, not the start, and
\* reached (after waiting for opening) before it closes
FeasibleCandidate(i) ==
    /\ i \in DOMAIN locations /\ ~visited[i] /\ i # start_idx
    /\ Max(current_time + TT(current, i), locations[i].open) < locations[i].close

\* C1: every location appended to the route, by the normal selection or by
\* the lunch step, is reached (after waiting for opening) strictly before
\* its close time.
C1_ArrivalBeforeClose ==
    [][BuildAppends =>
          Max(current_time + TT(current, Appended), locations[Appended].open)
              < locations[Appended].close]_vars

\* C2 as stated: at every step that appends a location, the appended
\* location has minimal travel + waiting among the feasible candidates.
C2_EveryAppendMinimal ==
    [][BuildAppends =>
          \A i \in DOMAIN locations :
              FeasibleCandidate(i) =>
                  TT(current, Appended)
                    + Max(0, locations[Appended].open - (current_time + TT(current, Appended)))
                  <= TT(current, i)
                    + Max(0, locations[i].open - (current_time + TT(current, i)))]_vars

\* C2 amended: at every normal selection step the appended location has
\* travel + waiting <= that of every unvisited non-start candidate whose
\* arrival (after waiting for opening) is not after its close time.
C2_SelectMinimal ==
    [][NormalSelect =>
          \A i \in DOMAIN locations :
              (~visited[i] /\ i # start_idx
                /\ Max(current_time + TT(current, i), locations[i].open)
                     <= locations[i].close) =>
                  TT(current, Appended)
                    + Max(0, locations[Appended].open - (current_time + TT(current, Appended)))
                  <= TT(current, i)
                    + Max(0, locations[i].open - (current_time + TT(current, i)))]_vars

\* a normal selection that had at least two candidates with different costs
C2_Witness ==
    /\ step = "select"
    /\ Len(route) = 2
    /\ \E i \in DOMAIN locations :
          /\ i # start_idx /\ i # route[2]
          /\ Max(start_time + TT(start_idx, i), locations[i].open) <= locations[i].close
          /\ TT(start_idx, i) + Max(0, locations[i].open - (start_time + TT(start_idx, i)))
               > TT(start_idx, route[2])
                 + Max(0, locations[route[2]].open - (start_time + TT(start_idx, route[2])))

\* the candidates the normal selection does not skip, and their least cost
Candidates == { i \in DOMAIN locations : ~Skipped(i) }
MinCost == CHOOSE c \in { Cost(i) : i \in Candidates } :
               \A i \in Candidates : c <= Cost(i)
LowestIndex(S) == CHOOSE i \in S : \A j \in S : i <= j

\* C3: the normal selection is a function of the state: it appends the
\* lowest index among the candidates of minimal cost (ties go to the lowest
\* index), and the clock moves to that arrival plus the duration.
C3_TieLowestIndex ==
    [][NormalSelect =>
          /\ Appended = LowestIndex({ i \in Candidates : Cost(i) = MinCost })
          /\ current' = Appended
          /\ current_time' = ArrivalAt(Appended) + locations[Appended].duration]_vars

\* a first selection in which the other candidate had the same cost and a
\* higher index
C3_Witness ==
    /\ step = "select"
    /\ Len(route) = 2
    /\ \E i \in DOMAIN locations :
          /\ i > route[2] /\ i # start_idx
          /\ Max(start_time + TT(start_idx, i), locations[i].open) <= locations[i].close
          /\ TT(start_idx, i) + Max(0, locations[i].open - (start_time + TT(start_idx, i)))
               = TT(start_idx, route[2])
                 + Max(0, locations[route[2]].open - (start_time + TT(start_idx, route[2])))

NonDecreasing(s) == \A k \in 1..(Len(s) - 1) : s[k] <= s[k + 1]

\* scenario 1 of the specification, called with four arguments only
Scenario1 ==
    /\ mode = "algo"
    /\ N = 3
    /\ locations[0] = Loc("S", 0, 1440, 0)
    /\ locations[1] = Loc("A", 540, 1080, 60)
    /\ locations[2] = Loc("B", 600, 1200, 90)
    /\ \A i, j \in 0..2 : i # j => TT(i, j) = 10
    /\ start_idx = 0 /\ start_time = 540
    /\ return_to_hotel = TRUE
    /\ restaurant_locations = AutoDetect(locations, start_idx, 0)

\* C7 as stated: scenario 1 returns the order [S, A, B] and finish time 710.
C7_Scenario1AsStated ==
    (Scenario1 /\ pc = "built") => (route = <<0, 1, 2>> /\ current_time = 710)

\* C7 amended: scenario 1 returns the order [S, A, B, S], the return leg to
\* S being on by default, and the finish time 720.
C7_Scenario1Returned ==
    (Scenario1 /\ pc = "built") => (route = <<0, 1, 2, 0>> /\ current_time = 720)

C7_Witness == Scenario1 /\ pc = "built" /\ Len(route) = 4

\* C8: a location that cannot be finished before it closes from any
\* predecessor (already open + duration > close) is never in the route.
C8_NeverFitsExcluded ==
    \A k \in 2..Len(route) :
        (route[k] # start_idx) =>
            locations[route[k]].open + locations[route[k]].duration
                <= locations[route[k]].close

----------------------------------------------------------------------------
(* Claims about the timeline and the meal stops *)

\* C4: arrival times never decrease along the route of build_itinerary nor
\* along the API's timeline with its lunch and dinner stops.
C4_MonotonicTime == NonDecreasing(arrivals) /\ NonDecreasing(timeline)

Count(s, x) == Cardinality({ k \in 1..Len(s) : s[k] = x })

\* an API timeline with a lunch and a dinner stop, built on a route of
\* build_itinerary with at least two stops after the start
C4_Witness ==
    /\ pc = "http200"
    /\ Len(route) >= 3
    /\ Count(final_route_indices, LUNCH_MARK) = 1
    /\ Count(final_route_indices, DINNER_MARK) = 1
    /\ Len(timeline) = Len(final_route_indices)

Meals(items, kind) == { k \in 1..Len(items) : items[k].isMeal = kind }

\* C5: the API's route holds at most one lunch and at most one dinner
\* marker, and the generator's item list at most one lunch and at most one
\* dinner item.
C5_SingleMeal ==
    /\ Count(final_route_indices, LUNCH_MARK) <= 1
    /\ Count(final_route_indices, DINNER_MARK) <= 1
    /\ Cardinality(Meals(itinerary_items, "lunch")) <= 1
    /\ Cardinality(Meals(itinerary_items, "dinner")) <= 1

\* the generator scheduled lunch, and a later stop again fell into the
\* window 660..900 in which lunch is considered
C5_Witness ==
    /\ pc = "gen_done"
    /\ \E k \in Meals(itinerary_items, "lunch") :
          \E m \in (k + 2)..Len(itinerary_items) :
              /\ itinerary_items[m].isMeal = "None"
              /\ 660 <= itinerary_items[m].time
              /\ itinerary_items[m].time <= 900

\* location_coords has an entry with a lat and a lon for every location
CoordsSupplied ==
    /\ DOMAIN location_coords = DOMAIN locations
    /\ \A i \in DOMAIN location_coords :
          location_coords[i].lat # None /\ location_coords[i].lon # None

\* C6: with a stop beyond the start and coordinates supplied for every
\* location, the route of the API's response has exactly one lunch stop and
\* exactly one dinner stop.
C6_ExactlyOneLunchAndDinner ==
    (pc = "http200" /\ Len(route) >= 2 /\ CoordsSupplied) =>
        /\ Count(final_route_indices, LUNCH_MARK) = 1
        /\ Count(final_route_indices, DINNER_MARK) = 1

\* C9: without location_coords and with a stop beyond the start, the request
\* still succeeds and no meal stop is inserted.
C9_NoCoordsNoError ==
    (mode = "api" /\ location_coords = << >> /\ Len(route) >= 2) =>
        /\ pc # "http500"
        /\ Count(final_route_indices, LUNCH_MARK) = 0
        /\ Count(final_route_indices, DINNER_MARK) = 0

\* C10: a request with no location, a matrix that is not n by n, or a start
\* index outside 0..n-1 is answered with status 400 and build_itinerary is
\* never entered.
C10_InvalidRejected ==
    (/\ mode = "api" /\ pc # "validate"
     /\ \/ PyLen(locations) = 0
        \/ PyLen(travel_time) # PyLen(locations)
        \/ \E i \in DOMAIN travel_time : PyLen(travel_time[i]) # PyLen(locations)
        \/ start_idx \notin 0..(PyLen(locations) - 1))
    => (pc = "http400" /\ route = << >> /\ step = "none")

\* a rejected request whose only defect is start_idx = n
C10_Witness ==
    /\ pc = "http400"
    /\ PyLen(locations) > 0
    /\ PyLen(travel_time) = PyLen(locations)
    /\ \A i \in DOMAIN travel_time : PyLen(travel_time[i]) = PyLen(locations)
    /\ start_idx = PyLen(locations)

----------------------------------------------------------------------------
(* Claims about the service calls *)

\* C13: for n coordinates calculate_travel_time_matrix returns n rows of n
\* nonnegative integers with a zero diagonal, whatever the routing
\* providers answer.
C13_MatrixWellFormed ==
    (mode = "matrix" /\ pc = "returned") =>
        LET matrix == response.matrix
            n == PyLen(request.coordinates)
        IN  /\ DOMAIN matrix = 0..(n - 1)
            /\ \A i \in DOMAIN matrix :
                  /\ DOMAIN matrix[i] = 0..(n - 1)
                  /\ \A j \in DOMAIN matrix[i] : matrix[i][j] \in Nat
                  /\ matrix[i][i] = 0

\* query k is sent: no earlier query yielded a restaurant within the radius
Sent(queries, k) == \A m \in 1..(k - 1) : queries[m] \notin RealMatches
NoRealMatch(queries) == \A k \in DOMAIN queries : queries[k] \notin RealMatches
IsSynthetic(r) ==
    /\ "name" \in DOMAIN r /\ r.name = "Nearby Restaurant"
    /\ r.open_time = 720 /\ r.close_time = 1320

\* C14 as stated: the result is never null, and it is the synthetic "Nearby
\* Restaurant" (720 to 1320) when no real match is found or any lookup step
\* raises.
C14_SyntheticOnAnyFailure ==
    (mode = "restaurant" /\ pc = "returned") =>
        /\ "name" \in DOMAIN response.result
        /\ (\/ NoRealMatch(request.queries)
            \/ request.client = "raise"
            \/ \E k \in DOMAIN request.queries :
                  Sent(request.queries, k) /\ request.queries[k] = "timeout")
           => IsSynthetic(response.result)

\* C14 amended: the result is never null; it is the synthetic "Nearby
\* Restaurant" (720 to 1320) when no query yields a restaurant within the
\* radius or an exception leaves the query loop's own handlers; a query that
\* raises is skipped, and the first later query with a match supplies the
\* result.
C14_SyntheticWhenNoMatch ==
    (mode = "restaurant" /\ pc = "returned") =>
        /\ "name" \in DOMAIN response.result
        /\ (NoRealMatch(request.queries) \/ request.client = "raise")
              => IsSynthetic(response.result)
        /\ (~NoRealMatch(request.queries) /\ request.client = "ok")
              => \E k \in DOMAIN request.queries :
                    /\ Sent(request.queries, k)
                    /\ request.queries[k] \in RealMatches
                    /\ response.result.name = request.queries[k]

\* a call in which one query timed out, one got a status other than 200 and
\* one found nothing, answered with the synthetic restaurant
C14_Witness ==
    /\ mode = "restaurant" /\ pc = "returned"
    /\ request.client = "ok"
    /\ request.queries = <<"timeout", "status500", "nothing">>
    /\ IsSynthetic(response.result)

Names(error, word) ==
    CASE word = "video_urls" ->
            error \in {"video_urls must be a non-empty list",
                       "video_urls cannot be empty", MissingArgument}
      [] word = "prompt" -> error = "prompt must be a string"

\* C15: a body whose video_urls is missing, not a list or empty is answered
\* with status 400 and an error naming video_urls; a body with a list of
\* urls whose prompt is missing or not a string is answered with status 400
\* and an error naming prompt.
C15_ValidationRejects ==
    (mode = "analyze" /\ pc = "returned" /\ request.json = "ok") =>
        /\ request.video_urls \in {"missing", "string", "empty"} =>
              (response.status = 400 /\ Names(response.error, "video_urls"))
        /\ (request.video_urls = "list" /\ request.prompt \in {"missing", "number"}) =>
              (response.status = 400 /\ Names(response.error, "prompt"))

----------------------------------------------------------------------------
(* Claims about the route of build_itinerary *)

\* C11: when no location other than the start is feasible at the start (its
\* arrival, after waiting for opening, is not before its close time), or the
\* start is the only location, build_itinerary returns the route [start_idx]
\* and the finish time start_time.
C11_NoFeasibleOneStop ==
    (/\ mode = "algo" /\ pc = "built"
     /\ \A i \in DOMAIN locations :
           i # start_idx =>
              Max(start_time + TT(start_idx, i), locations[i].open)
                  >= locations[i].close)
    => (route = <<start_idx>> /\ current_time = start_time)

IsPrefix(s, t) == Len(s) <= Len(t) /\ SubSeq(t, 1, Len(s)) = s

\* C12: the route starts with start_idx and only grows by appending; every
\* other index occurs at most once; start_idx occurs at position 1 and, once
\* the return leg is appended, once more as the last element, nowhere else.
C12_RouteShape ==
    /\ [](Len(route) >= 1 =>
            /\ route[1] = start_idx
            /\ \A k, m \in 2..Len(route) :
                  (k # m /\ route[k] # start_idx) => route[k] # route[m]
            /\ \A k \in 2..Len(route) :
                  route[k] = start_idx =>
                     (k = Len(route) /\ pc # "loop" /\ return_to_hotel))
    /\ [][pc = "loop" => IsPrefix(route, route')]_vars

\* a returned route with a lunch stop, another stop and the return leg
C12_Witness ==
    /\ pc = "built" /\ Len(route) = 4
    /\ route[4] = start_idx
    /\ "lunch_location" \in DOMAIN meal_times

\* C16: a call of build_itinerary on an input that differs from an earlier
\* call's input in the priority values only returns the same route, finish
\* time and meal_times as the earlier call.
C16_PriorityInert ==
    (mode = "algo" /\ pc = "built" /\ first_call # << >>) =>
        <<route, current_time, meal_times>> = first_call

\* the second call returned a route with two stops of different priority
C16_Witness ==
    /\ mode = "algo" /\ pc = "built" /\ first_call # << >>
    /\ Len(route) >= 3
    /\ locations[route[2]].priority # locations[route[3]].priority

\* C17: the normal selection never appends a candidate whose arrival, after
\* waiting for opening, is greater than or equal to its close time.
C17_ArrivalAtCloseSkipped ==
    [][NormalSelect =>
          ~(Max(current_time + TT(current, Appended), locations[Appended].open)
              >= locations[Appended].close)]_vars

VisitedCount(v) == Cardinality({ i \in DOMAIN v : v[i] })

\* C18: every iteration of the main loop either exits or marks exactly one
\* previously unvisited location as visited and appends it, lunch steps
\* included; at most n - 1 stops are appended, and the loop exits.
C18_Terminates ==
    /\ [][pc = "loop" =>
             \/ pc' = "built"
             \/ /\ ~visited[Appended] /\ visited'[Appended]
                /\ VisitedCount(visited') = VisitedCount(visited) + 1
                /\ Len(route') = Len(route) + 1]_vars
    /\ [](pc = "loop" => Len(route) - 1 <= N - 1)
    /\ <>(pc = "built")

\* the loop ran a lunch step and a normal selection and visited every
\* location other than the start
C18_Witness ==
    /\ pc = "built" /\ N = 3
    /\ VisitedCount(visited) = N - 1
    /\ "lunch_location" \in DOMAIN meal_times

\* C19: when the loop exits, every unvisited location other than the start
\* has, from the position and time of the exit, an arrival (after waiting
\* for opening) that is not before its close time.
C19_ExitOnlyWhenNoneFeasible ==
    [][(pc = "loop" /\ pc' = "built") =>
          \A i \in DOMAIN locations : ~FeasibleCandidate(i)]_vars

\* the loop has exited after a stop, leaving a location unvisited
C19_Witness ==
    /\ pc = "built"
    /\ Len(route) >= 2
    /\ \E i \in DOMAIN locations : i # start_idx /\ ~visited[i]

\* the clock after replaying stops k..Len(r) of a route from time t at
\* position prev, every stop taking its own duration
RECURSIVE Replay(_, _, _, _)
Replay(r, k, prev, t) ==
    IF k > Len(r) THEN t
    ELSE LET arrival == Max(t + TT(prev, r[k]), locations[r[k]].open)
         IN  Replay(r, k + 1, r[k], arrival + locations[r[k]].duration)

\* the same replay with the lunch stop waiting for the lunch window and
\* taking lunch_duration
RECURSIVE ReplayWithLunch(_, _, _, _)
ReplayWithLunch(r, k, prev, t) ==
    IF k > Len(r) THEN t
    ELSE LET arrival == Max(t + TT(prev, r[k]), locations[r[k]].open)
             lunch == /\ "lunch_location" \in DOMAIN meal_times
                      /\ meal_times["lunch_location"] = r[k]
         IN  IF lunch
             THEN ReplayWithLunch(r, k + 1, r[k], Max(arrival, lunch_start) + lunch_duration)
             ELSE ReplayWithLunch(r, k + 1, r[k], arrival + locations[r[k]].duration)

\* C20 as stated: without the return leg, the finish time is the replay of
\* the returned route in which every stop takes its own duration.
C20_FinishIsReplay ==
    (mode = "algo" /\ pc = "built" /\ ~return_to_hotel) =>
        current_time = Replay(route, 2, start_idx, start_time)

\* C20 amended: without the return leg, the finish time is the replay of the
\* returned route in which a stop of the normal selection takes its own
\* duration and the lunch stop starts at max(arrival, 720) and takes 60.
C20_FinishIsReplayWithLunch ==
    (mode = "algo" /\ pc = "built" /\ ~return_to_hotel) =>
        current_time = ReplayWithLunch(route, 2, start_idx, start_time)

\* a returned route with a lunch stop that waited for the window, at a
\* location whose own duration is not the lunch duration, and another stop
C20_Witness ==
    /\ mode = "algo" /\ pc = "built" /\ ~return_to_hotel
    /\ Len(route) = 3
    /\ "lunch_location" \in DOMAIN meal_times
    /\ meal_times["lunch_time"] = lunch_start
    /\ locations[meal_times["lunch_location"]].duration # lunch_duration

\* the four conditions of the lunch before a location, as the
\* specification lists them
LunchTrigger(now, arrival, duration) ==
    \/ now >= 660
    \/ arrival + duration >= 720
    \/ 720 <= arrival /\ arrival <= 900
    \/ now < 720 /\ 720 - now <= 60

\* the next location of the walk and the arrival there from a position
\* that is a location, after waiting for the opening
WalkIdx == route[walk_i + 1]
WalkArrival == Max(api_time + TT(current_idx, WalkIdx), locations[WalkIdx].open)

\* C21: in an iteration of the API's walk that starts with lunch not taken
\* and with coordinates for the current position, if one of the four
\* conditions holds (current time >= 660, estimated finish >= 720, arrival
\* in 720..900, current time at most 60 before 720) the lunch marker is the
\* next entry of the final route and the next location is the entry directly
\* after it; if none holds, the next entry is not the lunch marker.
C21_LunchBeforeIffTriggered ==
    [][(/\ pc = "walk" /\ walk_i < Len(route)
        /\ ~api_lunch_taken
        /\ current_idx >= 0 /\ HasCoords(current_idx)) =>
          LET k == Len(final_route_indices) + 1
          IN  IF LunchTrigger(api_time, WalkArrival, locations[WalkIdx].duration)
              THEN /\ Len(final_route_indices') >= k + 1
                   /\ final_route_indices'[k] = LUNCH_MARK
                   /\ final_route_indices'[k + 1] = WalkIdx
                   /\ api_lunch_taken'
              ELSE /\ ~api_lunch_taken'
                   /\ Len(final_route_indices') >= k =>
                        final_route_indices'[k] # LUNCH_MARK]_vars

\* C22: every lunch time recorded in the meal times (build_itinerary and the
\* API's lunch branches) or scheduled as a lunch item (generate_itinerary)
\* is at or after the start of the lunch window, 720.
C22_LunchNotBeforeWindow ==
    /\ "lunch_time" \in DOMAIN meal_times => meal_times["lunch_time"] >= 720
    /\ \A k \in DOMAIN itinerary_items :
          itinerary_items[k].isMeal = "lunch" => itinerary_items[k].time >= 720

DocumentedDinnerStart(finish, travel) ==
    IF 1140 <= finish /\ finish < 1200 /\ finish + travel < 1140
    THEN 1140
    ELSE finish + travel

\* C24: when the API inserts the dinner, its start is 1140 if the last stop
\* finished in 1140..1199 and the raw arrival (finish + travel to the
\* restaurant) is before 1140, and the raw arrival in every other case; the
\* dinner ends 60 minutes after its start.
C24_DinnerStartAsDocumented ==
    [][(pc = "walk" /\ pc' = "hotel" /\ dinner_time_set') =>
          \E travel \in NearTravel :
             /\ meal_times'["dinner_time"] = DocumentedDinnerStart(api_time, travel)
             /\ \/ end_time' = meal_times'["dinner_time"] + 60
                \/ \E back \in HavTravel :
                      end_time' = meal_times'["dinner_time"] + 60 + back]_vars

\* C25: the route of a successful API response ends with the start index;
\* when it holds the dinner marker, the marker is the entry directly before
\* that last entry, so every visited location other than the closing start
\* index, and the lunch marker, come before the dinner.
C25_DinnerLastThenStart ==
    pc = "http200" =>
        LET r == final_route_indices
        IN  /\ Len(r) >= 1
            /\ r[Len(r)] = start_idx
            /\ \A k \in DOMAIN r :
                  r[k] = DINNER_MARK =>
                     /\ k = Len(r) - 1
                     /\ \A j \in DOMAIN r :
                           (r[j] = LUNCH_MARK \/ (r[j] >= 0 /\ r[j] # start_idx))
                              => j < k

\* a successful response with two visited locations, the lunch and the
\* dinner
C25_Witness ==
    /\ pc = "http200"
    /\ Count(final_route_indices, DINNER_MARK) = 1
    /\ Count(final_route_indices, LUNCH_MARK) = 1
    /\ Len(final_route_indices) = 6

\* C26: when the API inserts the dinner and the start has coordinates for
\* the leg back, the end time is the maximum of the dinner end (dinner start
\* + 60) plus the travel from the restaurant to the start and the end time
\* computed before, which is the one build_itinerary returned.
C26_EndTimeIsMax ==
    [][(/\ pc = "walk" /\ pc' = "hotel" /\ dinner_time_set'
        /\ HasCoords(start_idx)) =>
          \E back \in HavTravel :
             end_time' = Max(meal_times'["dinner_time"] + 60 + back, end_time)]_vars

\* C27: in the timeline of a successful API response every location entered
\* by the walk (the entries >= 0 between the opening start entry and the
\* closing one) has a recomputed arrival, after waiting for the opening,
\* strictly before its close time.
C27_WalkArrivalBeforeClose ==
    pc = "http200" =>
        \A k \in DOMAIN final_route_indices :
           (k > 1 /\ k < Len(final_route_indices) /\ final_route_indices[k] >= 0)
              => timeline[k] < locations[final_route_indices[k]].close

IsLocation(x) == x >= 0

\* C28: in a successful API response the entries >= 0 of the final route,
\* without the start index appended at its end, are the route returned by
\* build_itinerary, in the same order.
C28_StopsPreserved ==
    pc = "http200" =>
        SelectSeq(final_route_indices, IsLocation) =
           IF Len(final_route_indices) > 1
           THEN Append(route, start_idx)
           ELSE route

\* the minutes from midnight a listed time <<hour, minutes, period>> names
ListedMinutes(t) ==
    LET hour == IF t[1] = 12 THEN 0 ELSE t[1]
    IN  (IF t[3] = "PM" THEN hour + 12 ELSE hour) * 60 + t[2]

ListedArrival(item) == ListedMinutes(format_time_12hr(item.time))

ScheduledStops == { itinerary_items[k].idx : k \in
                      { j \in DOMAIN itinerary_items :
                           itinerary_items[j].isMeal = "None" } }
SkippedStops == { skipped_locations[k] : k \in DOMAIN skipped_locations }

\* C29: every non-meal item of generate_itinerary is for a location that
\* is open around the clock (open 0, close 1440) or satisfies
\* max(listed arrival, open) + duration <= close; a location of the route is
\* in the skipped list exactly when it is not scheduled.
C29_ScheduledItemsFit ==
    mode = "gen" =>
        /\ \A k \in DOMAIN itinerary_items :
              itinerary_items[k].isMeal = "None" =>
                 LET loc == locations[itinerary_items[k].idx]
                 IN  \/ loc.open = 0 /\ loc.close = 1440
                     \/ Max(ListedArrival(itinerary_items[k]), loc.open)
                           + loc.duration <= loc.close
        /\ ScheduledStops \cap SkippedStops = {}
        /\ pc \in {"gen_done", "gen_error"} =>
              ScheduledStops \cup SkippedStops = { route[k] : k \in DOMAIN route }

\* C30: in the variant with the concurrent lookups, the loop over the route
\* runs only when every lookup has completed and the mapping holds, for
\* every stop of the route, the restaurant its lookup returned; and a
\* second serving of the same request, whatever the order in which its
\* lookups complete, produces the itinerary and the end time of the first.
C30_JoinedBeforeLoopAndOrderFree ==
    /\ pc \in {"fan_walk", "fan_lookup", "fan_done"} =>
          /\ \A k \in DOMAIN lunch_tasks : lunch_tasks[k].done
          /\ Len(lunch_results_list) = Len(route)
          /\ DOMAIN lunch_map = { route[k] : k \in DOMAIN route }
          /\ \A i \in DOMAIN lunch_map : lunch_map[i] = request.batch[i]
    /\ (pc = "fan_done" /\ first_call # << >>) =>
          /\ itinerary_items = first_call[1]
          /\ gen_time = first_call[3]

\* the request was served twice, with three lookups and a lunch, and the
\* lookup that completed first was not the same in the two servings
C30_Witness ==
    /\ pc = "fan_done" /\ first_call # << >>
    /\ Len(lunch_tasks) = 3
    /\ first_done # first_call[2]
    /\ \E k \in DOMAIN itinerary_items : itinerary_items[k].isMeal = "lunch"

====
